---- MODULE Spec2Model ----
(***************************************************************************)
(* A model of process_bookmarks.py: the link extractor, the category       *)
(* parser, the archive writer and the orchestrator loop.                   *)
(*                                                                         *)
(* Text is modelled as Python models it: a str is a sequence of            *)
(* characters, each character a one-element string.  Characters outside    *)
(* ASCII are written by their code point ("U+6807" is one character).      *)
(* The archive is the decoded text of the file (universal newlines already *)
(* applied by open(..., 'r')), so the only line terminator is "\n".  The   *)
(* file itself holds the UTF-8 bytes of that text, and a write that fails  *)
(* can stop after any byte.                                                *)
(***************************************************************************)
EXTENDS Naturals, Sequences, FiniteSets

VARIABLES
    file_exists,          \* os.path.exists(CATEGORY_FILE)
    file_text,            \* the persisted content of CATEGORY_FILE
    call,                 \* the last insert_article_to_category_file call
    ncalls,               \* number of insert calls made so far
    nfailures,            \* number of those calls in which an IOError was raised
    pc,                   \* where the main program stands
    nlinks,               \* len(extracted_links)
    link_index,           \* the loop index i of the main program (1-based)
    existing_categories,  \* the list threaded through the classify calls
    initial_categories,   \* what parse_categories_from_file returned at the start
    log,                  \* per link processed: how its iteration ended
    diff_lines,           \* the lines a diff text is made of
    extracted_links       \* the result of parse_markdown_links_from_diff

archive_vars == <<file_exists, file_text, call, ncalls, nfailures>>
run_vars == <<pc, nlinks, link_index, existing_categories, initial_categories, log>>
diff_vars == <<diff_lines, extracted_links>>
vars == <<archive_vars, run_vars, diff_vars>>

-----------------------------------------------------------------------------
(* Bounds of the model.                                                    *)

MaxDocChunks == 2     \* an initial archive is at most this many chunks
MaxInserts == 2       \* insert calls explored per behaviour
MaxIoFailures == 1    \* calls of the writer on its own that raise an IOError
MaxLinks == 2         \* links extracted from the diff in one run
MaxDiffLines == 3     \* lines of a diff text

-----------------------------------------------------------------------------
(* Sets and sequences.                                                     *)

Min(S) == CHOOSE x \in S : \A y \in S : x <= y
Last(q) == q[Len(q)]
Range(q) == {q[k] : k \in 1..Len(q)}

-----------------------------------------------------------------------------
(* Python str primitives.                                                  *)

\* Characters str.strip() and str.split() treat as whitespace: every
\* character for which str.isspace() holds.
Whitespace ==
    { "\t", "\n", "U+000B", "\f", "\r", "U+001C", "U+001D", "U+001E", "U+001F",
      " ", "U+0085", "U+00A0", "U+1680", "U+2000", "U+2001", "U+2002", "U+2003",
      "U+2004", "U+2005", "U+2006", "U+2007", "U+2008", "U+2009", "U+200A",
      "U+2028", "U+2029", "U+202F", "U+205F", "U+3000" }

\* Characters at which str.splitlines() ends a line ("\r\n" counts once).
LineBoundaries ==
    { "\n", "\r", "U+000B", "\f", "U+001C", "U+001D", "U+001E", "U+0085",
      "U+2028", "U+2029" }

RECURSIVE lstrip(_)
lstrip(s) ==
    IF s # <<>> /\ Head(s) \in Whitespace THEN lstrip(Tail(s)) ELSE s

RECURSIVE rstrip(_)
rstrip(s) ==
    IF s # <<>> /\ s[Len(s)] \in Whitespace
    THEN rstrip(SubSeq(s, 1, Len(s) - 1))
    ELSE s

strip(s) == rstrip(lstrip(s))

\* s.lstrip('#')
RECURSIVE lstrip_hash(_)
lstrip_hash(s) ==
    IF s # <<>> /\ Head(s) = "#" THEN lstrip_hash(Tail(s)) ELSE s

startswith(s, p) == Len(s) >= Len(p) /\ SubSeq(s, 1, Len(p)) = p

endswith(s, p) ==
    Len(s) >= Len(p) /\ SubSeq(s, Len(s) - Len(p) + 1, Len(s)) = p

\* Length of the longest prefix of s made of characters that are not whitespace.
RECURSIVE word_len(_)
word_len(s) ==
    IF s = <<>> \/ Head(s) \in Whitespace THEN 0 ELSE 1 + word_len(Tail(s))

\* s.split(maxsplit=1): leading whitespace is skipped, the first word ends at
\* the next whitespace run, and the rest (trailing whitespace kept) is the
\* second part when it is not empty.
split_maxsplit1(s) ==
    LET t == lstrip(s)
        w == word_len(t)
        rest == lstrip(SubSeq(t, w + 1, Len(t)))
    IN  IF t = <<>> THEN <<>>
        ELSE IF rest = <<>> THEN <<SubSeq(t, 1, w)>>
        ELSE <<SubSeq(t, 1, w), rest>>

\* ''.join(parts)
RECURSIVE join(_)
join(parts) == IF parts = <<>> THEN <<>> ELSE Head(parts) \o join(Tail(parts))

\* Index of the first "\n" of text, or Len(text) when there is none.
RECURSIVE line_end(_, _)
line_end(text, i) ==
    IF i >= Len(text) \/ text[i] = "\n" THEN i ELSE line_end(text, i + 1)

\* f.readlines() / iterating the file: lines keep their "\n".
RECURSIVE readlines(_)
readlines(text) ==
    IF text = <<>> THEN <<>>
    ELSE LET k == line_end(text, 1)
         IN  <<SubSeq(text, 1, k)>> \o readlines(SubSeq(text, k + 1, Len(text)))

\* f.writelines(lines)
writelines(lines) == join(lines)

\* The characters of the model's alphabet that encoding='utf-8' writes as
\* two, three and four bytes; every other character is one byte.
TwoBytes == {"U+0085", "U+00A0"}

ThreeBytes ==
    { "U+1680", "U+2000", "U+2001", "U+2002", "U+2003", "U+2004", "U+2005",
      "U+2006", "U+2007", "U+2008", "U+2009", "U+200A", "U+2028", "U+2029",
      "U+202F", "U+205F", "U+3000", "U+2728",
      "U+6807", "U+9898", "U+94FE", "U+63A5", "U+6458", "U+8981",
      "U+7F51", "U+7AD9", "U+8D44", "U+6E90", "U+5206", "U+7C7B", "U+6574",
      "U+7406" }

FourBytes == {"U+1F9E9", "U+1F527", "U+1F4A1", "U+1F4DA", "U+1F9ED"}

utf8_len(ch) ==
    IF ch \in TwoBytes THEN 2
    ELSE IF ch \in ThreeBytes THEN 3
    ELSE IF ch \in FourBytes THEN 4
    ELSE 1

\* len(text.encode('utf-8'))
utf8_size(text) ==
    Len(text)
    + Cardinality({k \in 1..Len(text) : text[k] \in TwoBytes})
    + 2 * Cardinality({k \in 1..Len(text) : text[k] \in ThreeBytes})
    + 3 * Cardinality({k \in 1..Len(text) : text[k] \in FourBytes})

\* The bytes of a character of which only a part reached the file, shown as
\* decoding with errors='replace' shows them.  A file that holds them is not
\* valid UTF-8.
Incomplete == "U+FFFD"

\* The content of a file that received the first n bytes of text: the
\* characters that fit, then the part of the character the cut falls in.
RECURSIVE utf8_prefix(_, _)
utf8_prefix(text, n) ==
    IF text = <<>> \/ n = 0 THEN <<>>
    ELSE IF Len(text) = 1
         THEN (IF utf8_len(text[1]) <= n THEN text ELSE <<Incomplete>>)
         ELSE LET h == Len(text) \div 2
                  left == SubSeq(text, 1, h)
                  size == utf8_size(left)
              IN  IF n < size THEN utf8_prefix(left, n)
                  ELSE left \o utf8_prefix(SubSeq(text, h + 1, Len(text)), n - size)

\* Whether open(file_path, 'r', encoding='utf-8') can read the content: on
\* an incomplete character the read raises UnicodeDecodeError, which is no
\* IOError and which the except clauses do not catch.
decodable(text) == \A k \in 1..Len(text) : text[k] # Incomplete

-----------------------------------------------------------------------------
(* Heading recognition, shared by the parser and the writer.               *)

H2 == <<"#", "#", " ">>
H3 == <<"#", "#", "#", " ">>

\* stripped_line.startswith('## ') or stripped_line.startswith('### ')
is_category_header(line) ==
    startswith(strip(line), H2) \/ startswith(strip(line), H3)

\* A variant that takes parts[0], the marker, for the name.
name_in_header_first_part(line) ==
    LET header_content == strip(lstrip_hash(strip(line)))
        parts == split_maxsplit1(header_content)
    IN  parts[1]

\* header_content.split(maxsplit=1)[-1]
name_in_header(line) ==
    LET header_content == strip(lstrip_hash(strip(line)))
        parts == split_maxsplit1(header_content)
    IN  parts[Len(parts)]

RECURSIVE categories_of_lines(_)
categories_of_lines(lines) ==
    IF lines = <<>> THEN <<>>
    ELSE (IF is_category_header(Head(lines))
          THEN <<name_in_header(Head(lines))>>
          ELSE <<>>) \o categories_of_lines(Tail(lines))

\* parse_categories_from_file: [] when the file does not exist.
parse_categories_from_file(exists, text) ==
    IF ~exists THEN <<>> ELSE categories_of_lines(readlines(text))

-----------------------------------------------------------------------------
(* The archive writer.  Indexes are 1-based here and 0-based in the code:  *)
(* index 0 stands for the code's -1 ("not found").                         *)

Label_title == <<"*", "*", "U+6807", "U+9898", ":", "*", "*">>
Label_link == <<"*", "*", "U+94FE", "U+63A5", ":", "*", "*">>
Label_summary == <<"*", "*", "U+6458", "U+8981", ":", "*", "*">>

\* f"**标题:** {title}\n\n**链接:** {url}\n\n**摘要:** {summary}"
article_text(title, url, summary) ==
    Label_title \o <<" ">> \o title \o <<"\n", "\n">>
    \o Label_link \o <<" ">> \o url \o <<"\n", "\n">>
    \o Label_summary \o <<" ">> \o summary

\* the decorative symbols random.choice draws from
emojis == << "U+1F9E9", "U+1F527", "U+1F4A1", "U+1F4DA", "U+1F9ED", "U+2728" >>

\* f"# 网站资源分类整理\n\n", written when the archive does not exist yet
InitialDocument ==
    << "#", " ", "U+7F51", "U+7AD9", "U+8D44", "U+6E90", "U+5206", "U+7C7B",
       "U+6574", "U+7406", "\n", "\n" >>

\* The first loop: the first heading line at or after i whose name is the
\* category, or 0.
RECURSIVE category_header_index(_, _, _)
category_header_index(lines, category, i) ==
    IF i > Len(lines) THEN 0
    ELSE IF is_category_header(lines[i]) /\ name_in_header(lines[i]) = category
         THEN i
         ELSE category_header_index(lines, category, i + 1)

\* The scan for the first entry-label line at or after i, or 0.
RECURSIVE first_article_index(_, _)
first_article_index(lines, i) ==
    IF i > Len(lines) THEN 0
    ELSE IF startswith(strip(lines[i]), Label_title) THEN i
         ELSE first_article_index(lines, i + 1)

\* A variant of the scan below that stops at major-depth headings only.
RECURSIVE end_of_section_index_major_only(_, _)
end_of_section_index_major_only(lines, i) ==
    IF i > Len(lines) THEN Len(lines) + 1
    ELSE IF startswith(lines[i], <<"#", "#", " ">>) THEN i
         ELSE end_of_section_index_major_only(lines, i + 1)

\* The scan for the end of the section: the first line at or after i that
\* starts with "##", or len(lines) (here Len(lines) + 1).
RECURSIVE end_of_section_index(_, _)
end_of_section_index(lines, i) ==
    IF i > Len(lines) THEN Len(lines) + 1
    ELSE IF startswith(lines[i], <<"#", "#">>) THEN i
         ELSE end_of_section_index(lines, i + 1)

\* lines.insert(i, x), for a 1-based position i in 1..Len(lines)+1
list_insert(lines, i, x) ==
    SubSeq(lines, 1, i - 1) \o <<x>> \o SubSeq(lines, i, Len(lines))

\* A variant of the branch below that assigns to lines[first] where the
\* code inserts in front of it.
insert_at_top_overwrites(lines, first, article) ==
    [lines EXCEPT ![first] = article \o <<"\n", "\n", "-", "-", "-", "\n", "\n">>]

\* The branch taken when the heading was found and an entry line follows.
insert_at_top(lines, first, article) ==
    list_insert(lines, first, article \o <<"\n", "\n", "-", "-", "-", "\n", "\n">>)

\* The branch taken when the heading was found and no entry line follows.
insert_in_empty(lines, header, article) ==
    list_insert(lines, end_of_section_index(lines, header + 1),
                <<"\n">> \o article \o <<"\n">>)

\* A variant of the branch below that writes the heading without its
\* decorative symbol.
append_new_category_no_marker(lines, category, article, emoji) ==
    LET l1 == IF lines # <<>> /\ ~endswith(lines[Len(lines)], <<"\n">>)
              THEN Append(lines, <<"\n">>) ELSE lines
        l2 == IF l1 # <<>> /\ strip(l1[Len(l1)]) # <<>>
              THEN Append(l1, <<"\n">>) ELSE l1
        new_category_header == H2 \o category \o <<"\n">>
    IN  l2 \o <<new_category_header, <<"\n">>, article \o <<"\n">>>>

\* The branch taken when no heading has the category's name.
append_new_category(lines, category, article, emoji) ==
    LET l1 == IF lines # <<>> /\ ~endswith(lines[Len(lines)], <<"\n">>)
              THEN Append(lines, <<"\n">>) ELSE lines
        l2 == IF l1 # <<>> /\ strip(l1[Len(l1)]) # <<>>
              THEN Append(l1, <<"\n">>) ELSE l1
        new_category_header == H2 \o <<emoji, " ">> \o category \o <<"\n">>
    IN  l2 \o <<new_category_header, <<"\n">>, article \o <<"\n">>>>

\* The list `lines` as it stands when the function reaches its final write.
updated_lines(lines, category, title, url, summary, emoji) ==
    LET article == article_text(title, url, summary)
        header == category_header_index(lines, category, 1)
        first == first_article_index(lines, header + 1)
    IN  IF header # 0
        THEN IF first # 0
             THEN insert_at_top(lines, first, article)
             ELSE insert_in_empty(lines, header, article)
        ELSE append_new_category(lines, category, article, emoji)

\* What the function reads: the content after the optional creation step.
text_read(exists, text) == IF exists THEN text ELSE InitialDocument

\* The whole function, as a map from the persisted file to the persisted
\* file.  io says where an IOError is raised, if anywhere:
\*   at = "none"          no failure
\*   at = "create"        open(file_path, 'w') of the creation step raises
\*   at = "create_write"  the creation step's write raises after the open,
\*                        when n bytes reached the file
\*   at = "read"          opening or reading the file raises
\*   at = "open_w"        open(file_path, 'w') of the final write raises
\*   at = "write"         the final write raises after the open, when n bytes
\*                        reached the file
\* A failure at a step the call does not execute has no effect.  On a file
\* that is not valid UTF-8 the read raises UnicodeDecodeError, the call ends
\* there and the file is left as it is.
insert_article_to_category_file(exists, text, category, title, url, summary, emoji, io) ==
    LET lines == readlines(text_read(exists, text))
        out == writelines(updated_lines(lines, category, title, url, summary, emoji))
    IN  IF ~exists /\ io.at = "create"
        THEN [exists |-> FALSE, text |-> <<>>]
        ELSE IF ~exists /\ io.at = "create_write"
        THEN [exists |-> TRUE, text |-> utf8_prefix(InitialDocument, io.n)]
        ELSE IF exists /\ ~decodable(text)
        THEN [exists |-> TRUE, text |-> text]
        ELSE IF io.at \in {"read", "open_w"}
        THEN [exists |-> TRUE, text |-> text_read(exists, text)]
        ELSE IF io.at = "write"
        THEN [exists |-> TRUE, text |-> utf8_prefix(out, io.n)]
        ELSE [exists |-> TRUE, text |-> out]

-----------------------------------------------------------------------------
(* Inputs of the archive writer.                                           *)

\* Pieces an initial archive is concatenated from: a major heading without
\* marker (name A), a minor heading with a marker token set off by an
\* ideographic space (name "A B"), an entry-label line, a line that starts
\* with "##" and is no heading, an indented heading (name A), and text with
\* no line terminator.
Chunks ==
    << <<"#", "#", " ", "A", "\n">>,
       <<"#", "#", "#", " ", "x", "U+3000", "A", " ", "B", "\n">>,
       Label_title \o <<" ", "e", "\n">>,
       <<"#", "#", "x", "\n">>,
       <<" ", "#", "#", " ", "A", "\n">>,
       <<"z">> >>

RECURSIVE Docs(_)
Docs(n) ==
    IF n = 0 THEN {<<>>}
    ELSE Docs(n - 1) \cup
         {d \o Chunks[i] : d \in Docs(n - 1), i \in 1..Len(Chunks)}

\* Category names as categorize_with_openai returns them: not empty, and
\* with no leading or trailing whitespace, '#', '*' or '"'.
Categories == {<<"A">>, <<"A", " ", "B">>}

\* The fields of the n-th entry archived: a single-line title, url, summary.
Digits == <<"1", "2", "3", "4", "5", "6", "7", "8", "9">>
TitleOf(n) == <<"t", Digits[n]>>
UrlOf(n) == <<"u", Digits[n]>>
SummaryOf(n) == <<"s", Digits[n]>>

NoFailure == [at |-> "none", n |-> 0]

NoCall ==
    [category |-> <<>>, title |-> <<>>, url |-> <<>>, summary |-> <<>>,
     io |-> NoFailure, exists |-> FALSE, text |-> <<>>]

\* The decorative symbols the call may draw: random.choice runs only on the
\* new-category branch.
EmojiDraws(exists, text, category) ==
    IF category_header_index(readlines(text_read(exists, text)), category, 1) = 0
    THEN {emojis[i] : i \in 1..Len(emojis)}
    ELSE {emojis[1]}

\* The variables of the main program and of the link extractor, where they
\* stand while those are not running.
RunIdle ==
    /\ pc = "idle" /\ nlinks = 0 /\ link_index = 0
    /\ existing_categories = <<>> /\ initial_categories = <<>> /\ log = <<>>

DiffIdle == diff_lines = <<>> /\ extracted_links = <<>>

Init ==
    /\ ncalls = 0
    /\ nfailures = 0
    /\ call = NoCall
    /\ \/ file_exists = FALSE /\ file_text = <<>>
       \/ file_exists = TRUE /\ file_text \in Docs(MaxDocChunks)
    /\ RunIdle
    /\ DiffIdle

\* One call of insert_article_to_category_file in which no IOError is raised.
\* (On a file that is not valid UTF-8 the call ends in UnicodeDecodeError.)
InsertArticle ==
    /\ ncalls < MaxInserts
    /\ \E category \in Categories :
       \E emoji \in EmojiDraws(file_exists, file_text, category) :
          LET n == ncalls + 1
              new == insert_article_to_category_file(
                         file_exists, file_text, category,
                         TitleOf(n), UrlOf(n), SummaryOf(n), emoji, NoFailure)
          IN  /\ file_exists' = new.exists
              /\ file_text' = new.text
              /\ call' = [category |-> category, title |-> TitleOf(n),
                          url |-> UrlOf(n), summary |-> SummaryOf(n),
                          io |-> NoFailure,
                          exists |-> file_exists, text |-> file_text]
              /\ ncalls' = n
    /\ UNCHANGED <<nfailures, run_vars, diff_vars>>

Next == InsertArticle

Spec == Init /\ [][Next]_vars

\* Where an IOError can be raised in a call on this file: anywhere the call
\* touches the file, and during each write after any number of the bytes to
\* write reached the file (the text is buffered and the operating system
\* writes bytes, so a cut can fall inside a line and inside a character).
IoFailures(exists, text, category, title, url, summary, emoji) ==
    LET out == writelines(updated_lines(readlines(text_read(exists, text)),
                                        category, title, url, summary, emoji))
    IN  {[at |-> a, n |-> 0] : a \in {"read", "open_w"}}
        \cup (IF exists THEN {}
              ELSE {[at |-> "create", n |-> 0]}
                   \cup {[at |-> "create_write", n |-> k] :
                            k \in 0..(utf8_size(InitialDocument) - 1)})
        \cup {[at |-> "write", n |-> k] : k \in 0..(utf8_size(out) - 1)}

\* One call of insert_article_to_category_file in which an IOError is raised
\* (and caught by the function, which then returns).
InsertArticleIOError ==
    /\ ncalls < MaxInserts
    /\ nfailures < MaxIoFailures
    /\ \E category \in Categories :
       \E emoji \in EmojiDraws(file_exists, file_text, category) :
          LET n == ncalls + 1
          IN  \E io \in IoFailures(file_exists, file_text, category,
                                   TitleOf(n), UrlOf(n), SummaryOf(n), emoji) :
                 LET new == insert_article_to_category_file(
                                file_exists, file_text, category,
                                TitleOf(n), UrlOf(n), SummaryOf(n), emoji, io)
                 IN  /\ file_exists' = new.exists
                     /\ file_text' = new.text
                     /\ call' = [category |-> category, title |-> TitleOf(n),
                                 url |-> UrlOf(n), summary |-> SummaryOf(n),
                                 io |-> io,
                                 exists |-> file_exists, text |-> file_text]
                     /\ ncalls' = n
                     /\ nfailures' = nfailures + 1
    /\ UNCHANGED <<run_vars, diff_vars>>

NextIO == InsertArticle \/ InsertArticleIOError

\* The archive writer on a file system whose operations can fail.
SpecIO == Init /\ [][NextIO]_vars

-----------------------------------------------------------------------------
(* The main program: the loop over the extracted links.  fetch, summarize  *)
(* and classify are external calls; each returns a value or fails (None or *)
(* an empty result, which the loop treats alike).                          *)

\* How an iteration can end before it reaches the archive.
LinkFailures == {"fetch_failed", "summarize_failed", "classify_failed"}

\* I/O failures explored in a run: while reading, and during the final write
\* before anything reached the file.
RunIoFailures == {[at |-> "read", n |-> 0], [at |-> "write", n |-> 0]}

\* if chosen_category not in existing_categories:
\*     existing_categories.append(chosen_category)
append_if_new(categories, chosen_category) ==
    IF \E k \in 1..Len(categories) : categories[k] = chosen_category
    THEN categories
    ELSE Append(categories, chosen_category)

\* Archives a run starts from, when the file exists: a category with an
\* entry, an empty category under a marked minor heading, both, and a file
\* with no heading whose last line has no terminator.
RunArchives ==
    { Chunks[1] \o Chunks[3],
      Chunks[2],
      Chunks[1] \o Chunks[2] \o Chunks[3],
      Chunks[6] }

\* The program as it enters the loop: the links were extracted and
\* existing_categories = parse_categories_from_file(CATEGORY_FILE) was run.
InitRun ==
    /\ ncalls = 0
    /\ nfailures = 0
    /\ call = NoCall
    /\ \/ file_exists = FALSE /\ file_text = <<>>
       \/ file_exists = TRUE /\ file_text \in RunArchives
    /\ pc = "loop"
    /\ nlinks \in 1..MaxLinks
    /\ link_index = 1
    /\ existing_categories = parse_categories_from_file(file_exists, file_text)
    /\ initial_categories = existing_categories
    /\ log = <<>>
    /\ DiffIdle

\* A variant of the iteration below in which a failure ends the loop.
LinkSkippedAborts ==
    /\ pc = "loop" /\ link_index <= nlinks
    /\ \E failure \in LinkFailures :
          log' = Append(log, [link |-> link_index, outcome |-> failure,
                              category |-> <<>>, io |-> NoFailure])
    /\ pc' = "done"
    /\ UNCHANGED <<archive_vars, link_index, nlinks, existing_categories,
                   initial_categories, diff_vars>>

\* An iteration in which fetch, summarize or classify fails: the else
\* branches print and the loop goes on to the next link.
LinkSkipped ==
    /\ pc = "loop" /\ link_index <= nlinks
    /\ \E failure \in LinkFailures :
          log' = Append(log, [link |-> link_index, outcome |-> failure,
                              category |-> <<>>, io |-> NoFailure])
    /\ link_index' = link_index + 1
    /\ UNCHANGED <<archive_vars, pc, nlinks, existing_categories,
                   initial_categories, diff_vars>>

\* An iteration in which classify returned a category: the insert call,
\* with or without an IOError inside it, then the update of the list.
LinkArchived ==
    /\ pc = "loop" /\ link_index <= nlinks
    /\ \E category \in Categories :
       \E emoji \in EmojiDraws(file_exists, file_text, category) :
       \E io \in {NoFailure} \cup RunIoFailures :
          LET n == link_index
              new == insert_article_to_category_file(
                         file_exists, file_text, category,
                         TitleOf(n), UrlOf(n), SummaryOf(n), emoji, io)
          IN  /\ file_exists' = new.exists
              /\ file_text' = new.text
              /\ call' = [category |-> category, title |-> TitleOf(n),
                          url |-> UrlOf(n), summary |-> SummaryOf(n),
                          io |-> io,
                          exists |-> file_exists, text |-> file_text]
              /\ ncalls' = ncalls + 1
              /\ nfailures' = IF io = NoFailure THEN nfailures ELSE nfailures + 1
              /\ existing_categories' = append_if_new(existing_categories, category)
              /\ log' = Append(log, [link |-> n, outcome |-> "archived",
                                     category |-> category, io |-> io])
    /\ link_index' = link_index + 1
    /\ UNCHANGED <<pc, nlinks, initial_categories, diff_vars>>

\* The loop is exhausted: the final message is printed.
Finish ==
    /\ pc = "loop" /\ link_index > nlinks
    /\ pc' = "done"
    /\ UNCHANGED <<archive_vars, nlinks, link_index, existing_categories,
                   initial_categories, log, diff_vars>>

NextRun == LinkSkipped \/ LinkArchived \/ Finish

\* The program is sequential and every external call has a timeout, so a
\* step that can be taken is taken.
SpecRun == InitRun /\ [][NextRun]_vars /\ WF_vars(NextRun)

-----------------------------------------------------------------------------
(* The link extractor.                                                     *)

\* Index of the first line boundary of text at or after i, or Len(text) + 1.
RECURSIVE boundary_index(_, _)
boundary_index(text, i) ==
    IF i > Len(text) \/ text[i] \in LineBoundaries THEN i
    ELSE boundary_index(text, i + 1)

\* diff_text.splitlines(): the lines without their boundary, a line ending
\* at every line boundary character, and no empty last line.
RECURSIVE splitlines(_)
splitlines(text) ==
    IF text = <<>> THEN <<>>
    ELSE LET k == boundary_index(text, 1)
             e == IF k < Len(text) /\ text[k] = "\r" /\ text[k + 1] = "\n"
                  THEN k + 1 ELSE k
         IN  <<SubSeq(text, 1, k - 1)>> \o splitlines(SubSeq(text, e + 1, Len(text)))

\* Where a match of \[(.+?)\]\((.+?)\) that starts at position p can close
\* its title group: at a "](" that leaves at least one character for the
\* url group before some ")".
TitleEnds(s, p) ==
    {j \in (p + 2)..(Len(s) - 3) :
        /\ s[j] = "]" /\ s[j + 1] = "("
        /\ \E k \in (j + 3)..Len(s) : s[k] = ")"}

\* The match of the pattern that starts at position p, both groups lazy:
\* the first title end that lets the rest match, then the first ")" that
\* leaves the url group at least one character.
match_at(s, p) ==
    LET j == Min(TitleEnds(s, p))
        k == Min({m \in (j + 3)..Len(s) : s[m] = ")"})
    IN  [title |-> SubSeq(s, p + 1, j - 1),
         url |-> SubSeq(s, j + 2, k - 1),
         end |-> k]

\* link_pattern.findall(content) from position p on, each match turned into
\* {'title': title.strip(), 'url': url.strip()}.
RECURSIVE findall_links(_, _)
findall_links(s, p) ==
    IF p > Len(s) THEN <<>>
    ELSE IF s[p] = "[" /\ TitleEnds(s, p) # {}
         THEN LET m == match_at(s, p)
              IN  <<[title |-> strip(m.title), url |-> strip(m.url)]>>
                  \o findall_links(s, m.end + 1)
         ELSE findall_links(s, p + 1)

\* line.startswith('+') and not line.startswith('+++')
is_added_line(line) ==
    startswith(line, <<"+">>) /\ ~startswith(line, <<"+", "+", "+">>)

RECURSIVE links_of_lines(_)
links_of_lines(lines) ==
    IF lines = <<>> THEN <<>>
    ELSE (IF is_added_line(Head(lines))
          THEN findall_links(strip(Tail(Head(lines))), 1)
          ELSE <<>>) \o links_of_lines(Tail(lines))

parse_markdown_links_from_diff(diff_text) ==
    links_of_lines(splitlines(diff_text))

\* What a diff line starts with: an addition, a removal, context, and the
\* file header of the new side.
Markers == {<<"+">>, <<"-">>, <<" ">>, <<"+", "+", "+">>}

\* What follows the marker, with the links written into it: two links on one
\* line (the first with padded url), one link with a padded title, brackets
\* that make no link, two links with a form feed between them, and a link
\* that follows a file separator character and a "+".
Bodies ==
    { [text |-> <<" ", "[", "a", "]", "(", " ", "b", " ", ")", "x",
                  "[", "c", "]", "(", "d", ")">>,
       links |-> << [title |-> <<"a">>, url |-> <<"b">>],
                    [title |-> <<"c">>, url |-> <<"d">>] >>],
      [text |-> <<"[", " ", "e", " ", "]", "(", "f", ")">>,
       links |-> << [title |-> <<"e">>, url |-> <<"f">>] >>],
      [text |-> <<"[", "g", "]", " ", "(", ")">>,
       links |-> << >>],
      [text |-> <<"[", "h", "]", "(", "i", ")", "\f", "[", "j", "]", "(", "k", ")">>,
       links |-> << [title |-> <<"h">>, url |-> <<"i">>],
                    [title |-> <<"j">>, url |-> <<"k">>] >>],
      [text |-> <<"y", "U+001C", "+", "[", "m", "]", "(", "n", ")">>,
       links |-> << [title |-> <<"m">>, url |-> <<"n">>] >>] }

DiffLines == {[marker |-> m, body |-> b] : m \in Markers, b \in Bodies}

RECURSIVE DiffsUpTo(_)
DiffsUpTo(n) ==
    IF n = 0 THEN {<<>>}
    ELSE DiffsUpTo(n - 1) \cup
         {Append(d, l) : d \in {e \in DiffsUpTo(n - 1) : Len(e) = n - 1},
                         l \in DiffLines}

\* The diff text the lines make, each line terminated by "\n" as git
\* writes it.
RECURSIVE DiffText(_)
DiffText(lines) ==
    IF lines = <<>> THEN <<>>
    ELSE Head(lines).marker \o Head(lines).body.text \o <<"\n">>
         \o DiffText(Tail(lines))

InitDiff ==
    /\ ncalls = 0 /\ nfailures = 0 /\ call = NoCall
    /\ file_exists = FALSE /\ file_text = <<>>
    /\ pc = "diff" /\ nlinks = 0 /\ link_index = 0
    /\ existing_categories = <<>> /\ initial_categories = <<>> /\ log = <<>>
    /\ diff_lines \in DiffsUpTo(MaxDiffLines)
    /\ extracted_links = <<>>

\* extracted_links = parse_markdown_links_from_diff(diff_output)
ParseDiff ==
    /\ pc = "diff"
    /\ extracted_links' = parse_markdown_links_from_diff(DiffText(diff_lines))
    /\ pc' = "parsed"
    /\ UNCHANGED <<archive_vars, nlinks, link_index, existing_categories,
                   initial_categories, log, diff_lines>>

NextDiff == ParseDiff

SpecDiff == InitDiff /\ [][NextDiff]_vars

-----------------------------------------------------------------------------
(* Vocabulary of the claims about the archive writer.  The last call read  *)
(* TextRead and left file_text behind.                                     *)

TextRead == text_read(call.exists, call.text)
LinesRead == readlines(TextRead)
LinesAfter == readlines(file_text)
ArticleOfCall == article_text(call.title, call.url, call.summary)

\* A call was made and raised no IOError.
Inserted == ncalls > 0 /\ call.io = NoFailure

\* The heading lines of a document that resolve to a category name.
ResolvingHeadings(lines, category) ==
    {i \in 1..Len(lines) :
        is_category_header(lines[i]) /\ name_in_header(lines[i]) = category}

HeadingIndexes(lines) == {i \in 1..Len(lines) : is_category_header(lines[i])}

IsEntryLine(line) == startswith(strip(line), Label_title)

\* The entry-label line an entry with this title starts with.
EntryLine(title) == Label_title \o <<" ">> \o title

\* The entries of the section that starts after line i - 1: the entry-label
\* lines up to the next heading of either depth.
RECURSIVE EntriesFrom(_, _)
EntriesFrom(lines, i) ==
    IF i > Len(lines) \/ is_category_header(lines[i]) THEN <<>>
    ELSE (IF IsEntryLine(lines[i]) THEN <<strip(lines[i])>> ELSE <<>>)
         \o EntriesFrom(lines, i + 1)

\* The document as its categories in document order, each with its entries.
RECURSIVE SectionsFrom(_, _)
SectionsFrom(lines, i) ==
    IF i > Len(lines) THEN <<>>
    ELSE (IF is_category_header(lines[i])
          THEN << [heading |-> strip(lines[i]),
                   entries |-> EntriesFrom(lines, i + 1)] >>
          ELSE <<>>) \o SectionsFrom(lines, i + 1)

Sections(lines) == SectionsFrom(lines, 1)

\* The call found a heading for its category / found none.
CategoryFound == ResolvingHeadings(LinesRead, call.category) # {}
TargetHeading == Min(ResolvingHeadings(LinesRead, call.category))
\* The position of the target heading among the headings.
TargetOrdinal ==
    Cardinality({i \in HeadingIndexes(LinesRead) : i <= TargetHeading})

IsPrefix(p, s) == Len(p) <= Len(s) /\ SubSeq(s, 1, Len(p)) = p

-----------------------------------------------------------------------------
(* Claims about the archive writer, checked under Spec.                    *)

\* C1: when no heading of the document resolves to the category, the call
\* leaves the prior content as a prefix, adds one heading that resolves to
\* exactly that category after all prior content (so the category list
\* grows by that name at its end), and the new section is the blank line and
\* the one entry: title, link and summary.
C1_NewCategoryAppended ==
    (Inserted /\ ~CategoryFound) =>
        LET S == Sections(LinesAfter)
            H == HeadingIndexes(LinesAfter)
            last == CHOOSE i \in H : \A j \in H : j <= i
        IN  /\ IsPrefix(TextRead, file_text)
            /\ parse_categories_from_file(TRUE, file_text)
                 = Append(categories_of_lines(LinesRead), call.category)
            /\ H # {}
            /\ last > Len(LinesRead)
            /\ SubSeq(S, 1, Len(S) - 1) = Sections(LinesRead)
            /\ Last(S).entries = <<EntryLine(call.title)>>
            /\ endswith(file_text,
                   LinesAfter[last] \o <<"\n">> \o ArticleOfCall \o <<"\n">>)

\* C1's case: a multi-word category is added to a document that has
\* headings and whose last line has no terminator.
C1_Witness ==
    /\ Inserted /\ ~CategoryFound
    /\ call.category = <<"A", " ", "B">>
    /\ HeadingIndexes(LinesRead) # {}
    /\ ~endswith(TextRead, <<"\n">>)

\* C2 as stated: when the category exists with N >= 0 entries, afterwards it
\* holds the new entry followed by the N earlier ones, and every other
\* category holds the entries it held.
C2_PrependedToCategory ==
    (Inserted /\ CategoryFound) =>
        Sections(LinesAfter) =
            [Sections(LinesRead) EXCEPT
                ![TargetOrdinal].entries = <<EntryLine(call.title)>> \o @]

\* C3 as stated: when a heading is met after the category's heading before
\* any entry-label line, the scan stops there: the new entry is not put in
\* front of an entry that lies under a different heading.
C3_ScanStopsAtNextHeading ==
    (/\ Inserted /\ CategoryFound
     /\ EntriesFrom(LinesRead, TargetHeading + 1) = <<>>
     /\ \E j \in HeadingIndexes(LinesRead) : j > TargetHeading) =>
        LET S == Sections(LinesAfter)
        IN  \A k \in 1..Len(S) :
               k # TargetOrdinal =>
                  ~(/\ Len(S[k].entries) >= 2
                    /\ S[k].entries[1] = EntryLine(call.title))

\* C4: on every path the content written is the content read with one
\* non-empty region inserted at a line boundary: what precedes and what
\* follows the region is the original, unchanged.
C4_OneRegionInserted ==
    Inserted =>
        \E k \in 0..Len(TextRead) :
            /\ k = 0 \/ k = Len(TextRead) \/ TextRead[k] = "\n"
            /\ Len(file_text) > Len(TextRead)
            /\ SubSeq(file_text, 1, k) = SubSeq(TextRead, 1, k)
            /\ SubSeq(file_text, Len(file_text) - (Len(TextRead) - k) + 1,
                      Len(file_text))
                 = SubSeq(TextRead, k + 1, Len(TextRead))

\* C4's case: an entry is put in front of the entries of an existing
\* category, with original content on both sides of it.
C4_Witness ==
    /\ Inserted /\ CategoryFound
    /\ EntriesFrom(LinesRead, TargetHeading + 1) # <<>>
    /\ ~IsPrefix(TextRead, file_text)
    /\ Len(file_text) > Len(TextRead)

\* C9: the parsed category list is unchanged by an insertion under a name
\* the parser reports, and grows by exactly that name, at its end, otherwise.
C9_CategoryListStable ==
    Inserted =>
        LET before == parse_categories_from_file(call.exists, call.text)
        IN  parse_categories_from_file(TRUE, file_text) =
                IF call.category \in Range(before)
                THEN before
                ELSE Append(before, call.category)

\* C9's case: the second insertion under a name finds the heading the
\* writer created for it (decorative symbol, then the name), and the name
\* is reported once.
C9_Witness ==
    /\ Inserted /\ ncalls >= 2
    /\ \E i \in ResolvingHeadings(LinesRead, call.category) :
       \E e \in Range(emojis) :
          startswith(LinesRead[i], H2 \o <<e, " ">> \o call.category)
    /\ Cardinality(ResolvingHeadings(LinesAfter, call.category)) = 1

\* The empty-category branch: the heading was found and no entry-label line
\* follows it.
EmptyCategoryPath ==
    /\ Inserted /\ CategoryFound
    /\ \A j \in (TargetHeading + 1)..Len(LinesRead) : ~IsEntryLine(LinesRead[j])

\* The blank line, the entry and a line end were inserted before line p.
InsertedBeforeLine(p) ==
    file_text = join(SubSeq(LinesRead, 1, p - 1))
                \o <<"\n">> \o ArticleOfCall \o <<"\n">>
                \o join(SubSeq(LinesRead, p, Len(LinesRead)))

IsMajorHeading(line) == startswith(strip(line), H2)

\* C10 as stated: on the empty-category branch the entry is inserted before
\* the next major-depth heading after the category's heading, or at the end;
\* a minor-depth heading in between does not end the scan.
C10_BeforeNextMajorHeading ==
    EmptyCategoryPath =>
        LET M == {j \in (TargetHeading + 1)..Len(LinesRead) :
                     IsMajorHeading(LinesRead[j])}
        IN  InsertedBeforeLine(IF M = {} THEN Len(LinesRead) + 1 ELSE Min(M))

\* C10 amended: on the empty-category branch the entry is inserted before the
\* next line after the category's heading that begins with "##" (a heading
\* of either depth written without indentation, or any other line with that
\* prefix), or at the end of the document when there is none.
C10_BeforeNextHashHashLine ==
    EmptyCategoryPath =>
        \E p \in (TargetHeading + 1)..(Len(LinesRead) + 1) :
            /\ \A j \in (TargetHeading + 1)..(p - 1) :
                  ~startswith(LinesRead[j], <<"#", "#">>)
            /\ p <= Len(LinesRead) => startswith(LinesRead[p], <<"#", "#">>)
            /\ InsertedBeforeLine(p)

\* C10's case: a minor-depth heading follows the empty category's heading
\* and the entry is inserted in front of it.
C10_Witness ==
    /\ EmptyCategoryPath
    /\ TargetHeading < Len(LinesRead)
    /\ startswith(LinesRead[TargetHeading + 1], H3)
    /\ InsertedBeforeLine(TargetHeading + 1)

-----------------------------------------------------------------------------
(* Claims about I/O failures, checked under SpecIO.                        *)

\* C5 as stated: after a call in which an IOError was raised, the persisted
\* archive is exactly what it was before the call or exactly the complete
\* new content.
C5_AllOrNothing ==
    (ncalls > 0 /\ call.io # NoFailure) =>
        \/ file_exists = call.exists /\ file_text = call.text
        \/ \E e \in Range(emojis) :
              LET new == insert_article_to_category_file(
                             call.exists, call.text, call.category,
                             call.title, call.url, call.summary, e, NoFailure)
              IN  file_exists = new.exists /\ file_text = new.text

-----------------------------------------------------------------------------
(* Claims about the main program, checked under SpecRun.                   *)

\* C6: an iteration that ends in a failure of fetch, summarize or classify
\* leaves the archive and the category list as they were and moves on to
\* the next link; the links are processed in discovery order, and the run
\* reaches its end with every link processed.
C6_FailedLinkOnlySkipped ==
    /\ [][(log' # log /\ Last(log').outcome \in LinkFailures) =>
             /\ file_exists' = file_exists
             /\ file_text' = file_text
             /\ existing_categories' = existing_categories
             /\ pc' = "loop"
             /\ link_index' = link_index + 1]_vars
    /\ [](\A k \in 1..Len(log) : log[k].link = k)
    /\ <>(pc = "done" /\ Len(log) = nlinks)

\* C6's case: the run ended, its first link failed and a later link was
\* archived.
C6_Witness ==
    /\ pc = "done" /\ Len(log) >= 2
    /\ log[1].outcome \in LinkFailures
    /\ log[2].outcome = "archived" /\ log[2].io = NoFailure
    /\ file_text # <<>>

\* The categories of the links whose insertion succeeded, in order.
RECURSIVE SuccessfullyInserted(_)
SuccessfullyInserted(entries) ==
    IF entries = <<>> THEN <<>>
    ELSE (IF Head(entries).outcome = "archived" /\ Head(entries).io = NoFailure
          THEN <<Head(entries).category>>
          ELSE <<>>) \o SuccessfullyInserted(Tail(entries))

\* A list followed by each of the names that is not in it yet.
RECURSIVE FollowedByNew(_, _)
FollowedByNew(list, names) ==
    IF names = <<>> THEN list
    ELSE FollowedByNew(IF Head(names) \in Range(list) THEN list
                       ELSE Append(list, Head(names)),
                       Tail(names))

\* C7 as stated: the list the next classify call receives is the list parsed
\* at the start followed by each new category name under which an earlier
\* link was successfully inserted.
C7_ListOfSuccessfulInsertions ==
    pc \in {"loop", "done"} =>
        existing_categories =
            FollowedByNew(initial_categories, SuccessfullyInserted(log))

-----------------------------------------------------------------------------
(* Claims about the link extractor, checked under SpecDiff.                *)

\* The links written into the added lines of a diff, in line order and left
\* to right within a line.
RECURSIVE LinksOnAddedLines(_)
LinksOnAddedLines(lines) ==
    IF lines = <<>> THEN <<>>
    ELSE (IF Head(lines).marker = <<"+">> THEN Head(lines).body.links ELSE <<>>)
         \o LinksOnAddedLines(Tail(lines))

\* C8 as stated: the extractor returns exactly the links on the added lines
\* of the diff (lines that start with "+" and not with "+++"), in order;
\* removed lines, context lines and the file header contribute nothing, and
\* the empty diff yields the empty list.
C8_LinksOfAddedLines ==
    pc = "parsed" => extracted_links = LinksOnAddedLines(diff_lines)

====
